---- MODULE Spec2Model ----
(***************************************************************************)
(* Model of the cyclone predictor's prediction service and its callers:    *)
(*   predictor/services.py  get_model_path, load_model (functools          *)
(*                          lru_cache(maxsize=1)), _predict_proba_safe,    *)
(*                          predict                                        *)
(*   predictor/views.py     warm load, home, api_predict, PredictAPIView,  *)
(*                          ModelMetadataAPIView, HealthAPIView            *)
(*   predictor/apps.py      PredictorConfig.ready                          *)
(*   predictor/forms.py     CycloneForm                                    *)
(* Numbers are fixed point: labels and request values in tenths,           *)
(* probabilities in hundredths.                                            *)
(***************************************************************************)
EXTENDS Integers, Sequences, FiniteSets, TLC

\* ------------------------------------------------------------------ bounds
NumWorkers == 2
MaxRows == 1

Threads == 1..NumWorkers
MainThread == 1

\* ------------------------------------------------------- values and files
Num(t) == [kind |-> "num", tenths |-> t]
NaN == [kind |-> "nan", tenths |-> 0]
Text == [kind |-> "text", tenths |-> 0]
NoValue == [kind |-> "none", tenths |-> 0]

DefaultPath == "BASE_DIR/predictor/data/cyclone_model.pkl"
OverridePath == "override.pkl"
Unset == "unset"
Paths == {DefaultPath, OverridePath}
PathSettings == {Unset, OverridePath}

ModelKinds == {"clfOnly", "proba"}
FileStates == {"absent", "corrupt"} \cup ModelKinds

NoHandle == [id |-> 0, kind |-> "none"]
NoErr == [kind |-> "none", path |-> "", src |-> ""]

FEATURE_ORDER ==
  << "sea_surface_temp", "pressure", "humidity", "wind_shear", "vorticity",
     "latitude", "ocean_depth", "proximity", "disturbance" >>

Fields == { FEATURE_ORDER[i] : i \in 1..Len(FEATURE_ORDER) }

\* ------------------------------------------------------- pure conversions
\* int(y): truncation toward zero; raises on NaN and on non-numeric text.
IntRaises(v) == v.kind # "num"

IntOf(v) ==
  IF v.tenths >= 0 THEN v.tenths \div 10 ELSE -((-v.tenths) \div 10)

\* float(v) as used by api_predict: accepts numbers and "nan", rejects text.
FloatRaises(v) == v.kind \notin {"num", "nan"}

\* Optional[float]: the probability returned by _predict_proba_safe
Some(v) == [some |-> TRUE, v |-> v]
None == [some |-> FALSE, v |-> 0]

get_model_path(setting) == IF setting = Unset THEN DefaultPath ELSE setting

os_path_exists(d, p) == d[p] # "absent"

FileNotFoundErrorDefault(p) ==
  [kind |-> "FileNotFoundError", path |-> DefaultPath, src |-> "load_model"]

FileNotFoundErrorAt(p) == [kind |-> "FileNotFoundError", path |-> p, src |-> "load_model"]

\* ------------------------------------------- outputs of the loaded model
\* numpy array returned by predict_proba: isArray FALSE is an object with no
\* ndim attribute (a list); data is row-major.
Arr(shape, data) == [raises |-> FALSE, none |-> FALSE, isArray |-> TRUE,
                     shape |-> shape, data |-> data]
ProbaRaise == [raises |-> TRUE, none |-> FALSE, isArray |-> FALSE,
               shape |-> << >>, data |-> << >>]
ProbaNone == [raises |-> FALSE, none |-> TRUE, isArray |-> FALSE,
              shape |-> << >>, data |-> << >>]
ProbaList == [raises |-> FALSE, none |-> FALSE, isArray |-> FALSE,
              shape |-> <<1, 2>>, data |-> <<30, 70>>]

ProbaOutcomes ==
  { ProbaRaise, ProbaNone, ProbaList,
    Arr(<<1, 2>>, <<30, 70>>), Arr(<<2, 2>>, <<10, 90, 40, 60>>),
    Arr(<<1, 3>>, <<20, 30, 50>>), Arr(<<1, 1>>, <<70>>),
    Arr(<<0, 2>>, << >>), Arr(<<1>>, <<70>>), Arr(<<0>>, << >>),
    Arr(<< >>, <<70>>) }

\* variant: reads the first column of a two-column output
ProbaStepFirstColumn(o) ==
  IF o.raises THEN [t |-> "raise", v |-> 0]
  ELSE IF o.none THEN [t |-> "fall", v |-> 0]
  ELSE IF ~o.isArray THEN [t |-> "raise", v |-> 0]
  ELSE IF Len(o.shape) = 2 /\ o.shape[2] >= 2
    THEN IF o.shape[1] >= 1 THEN [t |-> "ret", v |-> o.data[1]]
                            ELSE [t |-> "raise", v |-> 0]
  ELSE IF Len(o.shape) = 1 /\ o.shape[1] >= 1
    THEN [t |-> "ret", v |-> o.data[1]]
  ELSE [t |-> "fall", v |-> 0]

\* variant: shape[1] > 2 instead of shape[1] >= 2
ProbaStepStrict(o) ==
  IF o.raises THEN [t |-> "raise", v |-> 0]
  ELSE IF o.none THEN [t |-> "fall", v |-> 0]
  ELSE IF ~o.isArray THEN [t |-> "raise", v |-> 0]
  ELSE IF Len(o.shape) = 2 /\ o.shape[2] > 2
    THEN IF o.shape[1] >= 1 THEN [t |-> "ret", v |-> o.data[2]]
                            ELSE [t |-> "raise", v |-> 0]
  ELSE IF Len(o.shape) = 1 /\ o.shape[1] >= 1
    THEN [t |-> "ret", v |-> o.data[1]]
  ELSE [t |-> "fall", v |-> 0]

\* The try block of _predict_proba_safe applied to one predict_proba outcome:
\* "ret" with the value, "raise" (caught), or "fall" (left without returning).
ProbaStep(o) ==
  IF o.raises THEN [t |-> "raise", v |-> 0]
  ELSE IF o.none THEN [t |-> "fall", v |-> 0]
  ELSE IF ~o.isArray THEN [t |-> "raise", v |-> 0]
  ELSE IF Len(o.shape) = 2 /\ o.shape[2] >= 2
    THEN IF o.shape[1] >= 1 THEN [t |-> "ret", v |-> o.data[2]]
                            ELSE [t |-> "raise", v |-> 0]
  ELSE IF Len(o.shape) = 1 /\ o.shape[1] >= 1
    THEN [t |-> "ret", v |-> o.data[1]]
  ELSE [t |-> "fall", v |-> 0]

PredictRaise == [raises |-> TRUE, label |-> NoValue]
Labels == {Num(0), Num(10), Num(17), Num(20), Num(-5), Text}
PredictOutcomes == {PredictRaise} \cup { [raises |-> FALSE, label |-> l] : l \in Labels }

\* variant: the except clause returns 0.0 instead of None
HardStepZero(o) ==
  IF o.raises \/ IntRaises(o.label) THEN [t |-> "ret", v |-> 0]
  ELSE [t |-> "ret", v |-> IF IntOf(o.label) = 1 THEN 100 ELSE 0]

\* variant: int(y) >= 1 instead of int(y) == 1
HardStepPositive(o) ==
  IF o.raises \/ IntRaises(o.label) THEN [t |-> "raise", v |-> 0]
  ELSE [t |-> "ret", v |-> IF IntOf(o.label) >= 1 THEN 100 ELSE 0]

\* The second try block of _predict_proba_safe applied to one predict outcome.
HardStep(o) ==
  IF o.raises \/ IntRaises(o.label) THEN [t |-> "raise", v |-> 0]
  ELSE [t |-> "ret", v |-> IF IntOf(o.label) = 1 THEN 100 ELSE 0]

\* ------------------------------------------------------------- requests
\* A request body: a value per field, NoValue for a key that is not sent.
Base(d) ==
  [k \in Fields |->
     CASE k = "sea_surface_temp" -> Num(285)
       [] k = "pressure" -> Num(10100)
       [] k = "humidity" -> Num(800)
       [] k = "wind_shear" -> Num(50)
       [] k = "vorticity" -> Num(1)
       [] k = "latitude" -> Num(150)
       [] k = "ocean_depth" -> Num(30000)
       [] k = "proximity" -> Num(1000)
       [] OTHER -> d]

DistValues == {Num(0), Num(10), Num(20), Num(5), NaN, Text}

Payloads ==
  { Base(d) : d \in DistValues }
    \cup { [Base(Num(10)) EXCEPT !["pressure"] = NoValue],
           [Base(Num(10)) EXCEPT !["humidity"] = Text] }

Requests ==
  { [method |-> "POST", jsonOk |-> TRUE, payload |-> p] : p \in Payloads }
    \cup { [method |-> "POST", jsonOk |-> FALSE, payload |-> Base(Num(10))],
           [method |-> "GET", jsonOk |-> TRUE, payload |-> Base(Num(10))] }

\* features = [data[f] for f in FEATURE_ORDER]
FeaturesOf(p) == [i \in 1..Len(FEATURE_ORDER) |-> p[FEATURE_ORDER[i]]]

AllPresent(p) == \A k \in Fields : p[k].kind # "none"

IsWhole(v) == v.kind = "num" /\ v.tenths % 10 = 0

\* CycloneForm.is_valid(): eight required finite floats and a required
\* integer; the widget attrs (min, max, step) are not validators.
FormValid(p) ==
  /\ \A k \in Fields \ {"disturbance"} : p[k].kind = "num"
  /\ IsWhole(p["disturbance"])

\* PredictionInputSerializer.is_valid(): eight FloatFields and
\* IntegerField(min_value=0, max_value=1).
SerializerValid(p) ==
  /\ \A k \in Fields \ {"disturbance"} : p[k].kind \in {"num", "nan"}
  /\ IsWhole(p["disturbance"])
  /\ IntOf(p["disturbance"]) >= 0
  /\ IntOf(p["disturbance"]) <= 1

\* ---------------------------------------------------------------- state
VARIABLES
  settings,      \* settings.CYCLONE_MODEL_PATH, Unset when not configured
  preload,       \* settings.PREDICTOR_PRELOAD_MODEL
  disk,          \* what is stored at each path
  cache,         \* the single slot of lru_cache(maxsize=1) around load_model
  loads,         \* number of completed joblib.load deserializations
  boot,          \* "apps" (before ready), "urls" (before views import), "serving"
  rows,          \* number of CyclonePrediction rows saved
  first,         \* history: how the first load_model call to complete ended
  th             \* per thread: position and locals of the handler it runs

vars == << settings, preload, disk, cache, loads, boot, rows, first, th >>

Idle ==
  [ pc |-> "idle", op |-> "none", features |-> << >>, db_ok |-> TRUE,
    path |-> "", checked |-> "no", touched |-> 0, saw |-> NoHandle,
    after |-> "none", hit |-> FALSE, model |-> NoHandle, err |-> NoErr,
    loaded |-> "none", y |-> NoValue, y2 |-> NoValue, t1 |-> "notrun",
    t2 |-> "notrun", pout |-> ProbaNone, proba |-> None, cls |-> 0, pred |-> "none",
    resp |-> [code |-> 0, body |-> ""] ]

PredictOps == {"home", "api_predict", "drf"}

Init ==
  /\ settings \in PathSettings
  /\ preload \in BOOLEAN
  /\ disk \in [Paths -> FileStates]
  /\ cache = NoHandle
  /\ loads = 0
  /\ boot = "apps"
  /\ rows = 0
  /\ first = "none"
  /\ th = [t \in Threads |-> Idle]

\* ------------------------------------------------ what each handler returns
\* The except clauses and return statements of the handler that runs r.op.
Respond(r) ==
  LET failBody == IF r.err.kind = "FileNotFoundError" THEN "not_found" ELSE "failed"
      resp ==
        CASE r.op \in {"preload", "warm"} -> [code |-> 0, body |-> ""]
          [] r.op = "health" ->
               [code |-> 200,
                body |-> IF r.db_ok /\ r.loaded = "ok" THEN "ok" ELSE "not_ok"]
          [] r.op = "metadata" ->
               [code |-> 200,
                body |-> IF r.loaded = "ok" THEN "meta" ELSE "warning"]
          [] r.op = "home" ->
               [code |-> 200, body |-> IF r.pred = "returned" /\ r.err = NoErr
                                         THEN "prediction" ELSE failBody]
          [] OTHER ->
               IF r.pred = "returned" THEN [code |-> 200, body |-> "prediction"]
                                      ELSE [code |-> 500, body |-> failBody]
  IN [r EXCEPT !.pc = "done", !.resp = resp]

Reject(op, code, body) ==
  [Idle EXCEPT !.pc = "done", !.op = op, !.resp = [code |-> code, body |-> body]]

\* load_model() returned h to its caller.
Loaded(r, h) ==
  LET r1 == [r EXCEPT !.model = h, !.loaded = "ok"]
  IN IF r.op \in PredictOps THEN [r1 EXCEPT !.pc = "tier0"] ELSE Respond(r1)

\* load_model() raised e; predict() lets it propagate to the handler.
LoadRaised(r, e) ==
  Respond([r EXCEPT !.err = e, !.loaded = "raised",
                    !.pred = IF r.op \in PredictOps THEN "raised" ELSE "none"])

\* -------------------------------------------------------------- start-up
Call(op) == [Idle EXCEPT !.pc = "lookup", !.op = op]

\* PredictorConfig.ready(): preload unless PREDICTOR_PRELOAD_MODEL is false.
ready(t) ==
  /\ boot = "apps" /\ t = MainThread /\ th[t].pc = "idle"
  /\ IF preload
       THEN th' = [th EXCEPT ![t] = Call("preload")] /\ boot' = boot
       ELSE th' = th /\ boot' = "urls"
  /\ UNCHANGED << settings, preload, disk, cache, loads, rows, first >>

\* import of predictor.views: the module-level warm load.
warm_load(t) ==
  /\ boot = "urls" /\ t = MainThread /\ th[t].pc = "idle"
  /\ th' = [th EXCEPT ![t] = Call("warm")]
  /\ UNCHANGED << settings, preload, disk, cache, loads, boot, rows, first >>

\* ------------------------------------------------------------- load_model
FirstOr(outcome) == IF first = "none" THEN outcome ELSE first

\* lru_cache wrapper: look the (only) key up; a hit returns the stored value.
CacheHitNever(c) == FALSE

CacheHit(c) == c # NoHandle

cache_lookup(t) ==
  /\ th[t].pc = "lookup"
  /\ LET r == [th[t] EXCEPT !.saw = cache, !.after = first]
     IN th' = [th EXCEPT ![t] =
                 IF CacheHit(cache)
                   THEN Loaded([r EXCEPT !.hit = TRUE], cache)
                   ELSE [r EXCEPT !.pc = "resolve"]]
  /\ UNCHANGED << settings, preload, disk, cache, loads, boot, rows, first >>

\* model_path = get_model_path()
resolve_path(t) ==
  /\ th[t].pc = "resolve"
  /\ th' = [th EXCEPT ![t].path = get_model_path(settings), ![t].pc = "exists"]
  /\ UNCHANGED << settings, preload, disk, cache, loads, boot, rows, first >>

\* if not os.path.exists(model_path): raise FileNotFoundError(...)
check_exists(t) ==
  /\ th[t].pc = "exists"
  /\ LET r == [th[t] EXCEPT !.touched = @ + 1] IN
     IF os_path_exists(disk, r.path)
       THEN /\ th' = [th EXCEPT ![t] = [r EXCEPT !.checked = "present", !.pc = "joblib"]]
            /\ first' = first
       ELSE /\ th' = [th EXCEPT ![t] =
                        LoadRaised([r EXCEPT !.checked = "absent"],
                                   FileNotFoundErrorAt(r.path))]
            /\ first' = FirstOr("not_found")
  /\ UNCHANGED << settings, preload, disk, cache, loads, boot, rows >>

\* return joblib.load(model_path): a new object for each deserialization.
joblib_load(t) ==
  /\ th[t].pc = "joblib"
  /\ LET r == [th[t] EXCEPT !.touched = @ + 1]
         f == disk[r.path] IN
     CASE f = "absent" ->
            /\ th' = [th EXCEPT ![t] =
                        LoadRaised(r, [kind |-> "FileNotFoundError",
                                       path |-> r.path, src |-> "joblib"])]
            /\ first' = FirstOr("not_found")
            /\ loads' = loads
       [] f = "corrupt" ->
            /\ th' = [th EXCEPT ![t] =
                        LoadRaised(r, [kind |-> "LoadError",
                                       path |-> r.path, src |-> "joblib"])]
            /\ first' = FirstOr("load_error")
            /\ loads' = loads
       [] OTHER ->
            /\ th' = [th EXCEPT ![t] =
                        [r EXCEPT !.model = [id |-> loads + 1, kind |-> f],
                                  !.pc = "store"]]
            /\ loads' = loads + 1
            /\ first' = first
  /\ UNCHANGED << settings, preload, disk, cache, boot, rows >>

\* lru_cache wrapper after the call: store the result unless the key was
\* added meanwhile; either way return this call's own result.
StoreResultDropped(c, h) == c

StoreResult(c, h) == IF c = NoHandle THEN h ELSE c

cache_store(t) ==
  /\ th[t].pc = "store"
  /\ cache' = StoreResult(cache, th[t].model)
  /\ th' = [th EXCEPT ![t] = Loaded(th[t], th[t].model)]
  /\ first' = FirstOr("ok")
  /\ UNCHANGED << settings, preload, disk, loads, boot, rows >>

\* ------------------------------------------------- predict and its tiers
\* y = model.predict(X)[0]
tier0_predict(t, o) ==
  /\ th[t].pc = "tier0"
  /\ th' = [th EXCEPT ![t] =
              IF o.raises
                THEN Respond([th[t] EXCEPT !.pred = "raised",
                                !.err = [kind |-> "InferenceError", path |-> "",
                                         src |-> "predict"]])
                ELSE [th[t] EXCEPT !.y = o.label, !.pc = "tier1"]]
  /\ UNCHANGED << settings, preload, disk, cache, loads, boot, rows, first >>

\* first try block of _predict_proba_safe on a model without predict_proba
tier1_absent(t) ==
  /\ th[t].pc = "tier1" /\ th[t].model.kind # "proba"
  /\ th' = [th EXCEPT ![t].t1 = "absent", ![t].pc = "tier2"]
  /\ UNCHANGED << settings, preload, disk, cache, loads, boot, rows, first >>

\* first try block of _predict_proba_safe on a model with predict_proba
tier1_proba(t, o) ==
  /\ th[t].pc = "tier1" /\ th[t].model.kind = "proba"
  /\ LET s == ProbaStep(o) IN
     th' = [th EXCEPT ![t] =
              CASE s.t = "ret" -> [th[t] EXCEPT !.t1 = "returned", !.pout = o,
                                      !.proba = Some(s.v), !.pc = "coerce"]
                [] s.t = "raise" -> [th[t] EXCEPT !.t1 = "raised", !.pout = o,
                                       !.pc = "tier2"]
                [] OTHER -> [th[t] EXCEPT !.t1 = "fellthrough", !.pout = o,
                                !.pc = "tier2"]]
  /\ UNCHANGED << settings, preload, disk, cache, loads, boot, rows, first >>

\* second try block of _predict_proba_safe: a second model.predict call
tier2_hard(t, o) ==
  /\ th[t].pc = "tier2"
  /\ LET s == HardStep(o) IN
     th' = [th EXCEPT ![t] =
              [th[t] EXCEPT !.y2 = o.label,
                 !.t2 = IF s.t = "ret" THEN "returned" ELSE "raised",
                 !.proba = IF s.t = "ret" THEN Some(s.v) ELSE None,
                 !.pc = "coerce"]]
  /\ UNCHANGED << settings, preload, disk, cache, loads, boot, rows, first >>

\* return int(y), proba
ClassOf(y) == IntOf(y)

coerce_return(t) ==
  /\ th[t].pc = "coerce"
  /\ th' = [th EXCEPT ![t] =
              IF IntRaises(th[t].y)
                THEN Respond([th[t] EXCEPT !.pred = "raised",
                                !.err = [kind |-> "ValueError", path |-> "",
                                         src |-> "int"]])
                ELSE LET r == [th[t] EXCEPT !.cls = ClassOf(th[t].y),
                                            !.pred = "returned"]
                     IN IF r.op = "home" THEN [r EXCEPT !.pc = "save"]
                                         ELSE Respond(r)]
  /\ UNCHANGED << settings, preload, disk, cache, loads, boot, rows, first >>

\* home: cyclone_record.save(); a database error is reported like any other
save_record(t, ok) ==
  /\ th[t].pc = "save"
  /\ IF ok
       THEN /\ rows' = rows + 1
            /\ th' = [th EXCEPT ![t] = Respond(th[t])]
       ELSE /\ rows' = rows
            /\ th' = [th EXCEPT ![t] =
                        Respond([th[t] EXCEPT !.err =
                          [kind |-> "DatabaseError", path |-> "", src |-> "save"]])]
  /\ UNCHANGED << settings, preload, disk, cache, loads, boot, first >>

\* ------------------------------------------------------------- handlers
Predicting(op, p) == [Idle EXCEPT !.pc = "lookup", !.op = op, !.features = FeaturesOf(p)]

\* views.home
home(t, req) ==
  /\ boot = "serving" /\ th[t].pc = "idle"
  /\ (req.method = "POST" /\ FormValid(req.payload)) => rows < MaxRows
  /\ th' = [th EXCEPT ![t] =
              IF req.method # "POST" THEN Reject("home", 200, "form")
              ELSE IF ~FormValid(req.payload) THEN Reject("home", 200, "invalid")
              ELSE Predicting("home", req.payload)]
  /\ UNCHANGED << settings, preload, disk, cache, loads, boot, rows, first >>

\* views.api_predict
api_predict(t, req) ==
  /\ boot = "serving" /\ th[t].pc = "idle"
  /\ req.method = "POST"
  /\ th' = [th EXCEPT ![t] =
              IF ~req.jsonOk THEN Reject("api_predict", 500, "failed")
              ELSE IF ~AllPresent(req.payload) THEN Reject("api_predict", 400, "missing")
              ELSE IF \E k \in Fields : FloatRaises(req.payload[k])
                THEN Reject("api_predict", 400, "types")
              ELSE Predicting("api_predict", req.payload)]
  /\ UNCHANGED << settings, preload, disk, cache, loads, boot, rows, first >>

\* views.PredictAPIView.post
PredictAPIView_post(t, req) ==
  /\ boot = "serving" /\ th[t].pc = "idle"
  /\ req.method = "POST" /\ req.jsonOk
  /\ th' = [th EXCEPT ![t] =
              IF ~SerializerValid(req.payload) THEN Reject("drf", 400, "errors")
              ELSE Predicting("drf", req.payload)]
  /\ UNCHANGED << settings, preload, disk, cache, loads, boot, rows, first >>

\* views.ModelMetadataAPIView.get
ModelMetadataAPIView_get(t) ==
  /\ boot = "serving" /\ th[t].pc = "idle"
  /\ th' = [th EXCEPT ![t] = Call("metadata")]
  /\ UNCHANGED << settings, preload, disk, cache, loads, boot, rows, first >>

\* views.HealthAPIView.get; ok is whether the database query succeeds
HealthAPIView_get(t, ok) ==
  /\ boot = "serving" /\ th[t].pc = "idle"
  /\ th' = [th EXCEPT ![t] = [Call("health") EXCEPT !.db_ok = ok]]
  /\ UNCHANGED << settings, preload, disk, cache, loads, boot, rows, first >>

\* the handler's return: its locals go away, start-up moves on
finish(t) ==
  /\ th[t].pc = "done"
  /\ th' = [th EXCEPT ![t] = Idle]
  /\ boot' = CASE th[t].op = "preload" -> "urls"
               [] th[t].op = "warm" -> "serving"
               [] OTHER -> boot
  /\ UNCHANGED << settings, preload, disk, cache, loads, rows, first >>

\* ---------------------------------------------------------- environment
\* the artifact at p is written, replaced or deleted
write_artifact(p, f) ==
  /\ disk[p] # f
  /\ disk' = [disk EXCEPT ![p] = f]
  /\ UNCHANGED << settings, preload, cache, loads, boot, rows, first, th >>

\* settings.CYCLONE_MODEL_PATH is changed
set_model_path(v) ==
  /\ settings # v
  /\ settings' = v
  /\ UNCHANGED << preload, disk, cache, loads, boot, rows, first, th >>

\* -------------------------------------------------------- specifications
LoadSteps(t) ==
  \/ cache_lookup(t) \/ resolve_path(t) \/ check_exists(t)
  \/ joblib_load(t) \/ cache_store(t)

PredictSteps(t, PO, QO) ==
  \/ \E o \in PO : tier0_predict(t, o)
  \/ tier1_absent(t)
  \/ \E o \in QO : tier1_proba(t, o)
  \/ \E o \in PO : tier2_hard(t, o)
  \/ coerce_return(t)

\* Concurrent callers of load_model: every worker thread serves health,
\* metadata and prediction requests while the artifact and the configured
\* path may change; the loaded model answers one way.
SteadyPredict == { [raises |-> FALSE, label |-> Num(10)] }
SteadyProba == { Arr(<<1, 2>>, <<30, 70>>) }
SteadyRequests == { [method |-> "POST", jsonOk |-> TRUE, payload |-> Base(Num(10))] }

InitRace ==
  /\ Init
  /\ settings = Unset
  /\ preload
  /\ disk[OverridePath] = "absent"
  /\ disk[DefaultPath] # "corrupt"

Next ==
  \/ \E t \in Threads :
       \/ ready(t) \/ warm_load(t)
       \/ LoadSteps(t)
       \/ PredictSteps(t, SteadyPredict, SteadyProba)
       \/ \E req \in SteadyRequests : PredictAPIView_post(t, req)
       \/ HealthAPIView_get(t, TRUE)
       \/ finish(t)
  \/ \E f \in {"absent"} \cup ModelKinds : write_artifact(DefaultPath, f)

Spec == InitRace /\ [][Next]_vars

\* One thread, steady model, while the artifact and the configured path
\* change freely: start-up, health, metadata and prediction requests.
NextStorage ==
  \/ ready(MainThread) \/ warm_load(MainThread)
  \/ LoadSteps(MainThread)
  \/ PredictSteps(MainThread, SteadyPredict, SteadyProba)
  \/ \E req \in SteadyRequests : PredictAPIView_post(MainThread, req)
  \/ ModelMetadataAPIView_get(MainThread)
  \/ \E ok \in BOOLEAN : HealthAPIView_get(MainThread, ok)
  \/ finish(MainThread)
  \/ \E p \in Paths, f \in FileStates : write_artifact(p, f)
  \/ \E v \in PathSettings : set_model_path(v)

SpecStorage == Init /\ [][NextStorage]_vars

\* One request at a time on one thread over a fixed artifact, with every
\* request shape and every behaviour of the loaded model.
NextRequests ==
  \/ ready(MainThread) \/ warm_load(MainThread)
  \/ LoadSteps(MainThread)
  \/ PredictSteps(MainThread, PredictOutcomes, ProbaOutcomes)
  \/ \E ok \in BOOLEAN : save_record(MainThread, ok)
  \/ \E req \in Requests :
       \/ home(MainThread, req)
       \/ api_predict(MainThread, req)
       \/ PredictAPIView_post(MainThread, req)
  \/ finish(MainThread)

SpecRequests == Init /\ [][NextRequests]_vars

TypeOK ==
  /\ settings \in PathSettings
  /\ disk \in [Paths -> FileStates]
  /\ loads \in 0..(NumWorkers + 1)
  /\ rows \in 0..MaxRows
  /\ \A t \in Threads : th[t].touched \in 0..2

\* =================================================================== claims
HealthOps == {"health", "metadata"}

TwoColumns(o) == o.isArray /\ Len(o.shape) = 2 /\ o.shape[2] >= 2 /\ o.shape[1] >= 1
OneDimension(o) == o.isArray /\ Len(o.shape) = 1 /\ o.shape[1] >= 1
Pseudo(c) == Some(IF c = 1 THEN 100 ELSE 0)

\* C1 (as claimed): callers racing on an empty cache cause exactly one
\* deserialization and all receive the same handle, the cached one.
C1_OneDeserialization ==
  /\ loads <= 1
  /\ \A t \in Threads : th[t].loaded = "ok" => th[t].model = cache

\* C2 (as claimed): once the first load_model call has failed with not-found,
\* every later call fails with not-found too.
C2_FailureSticks ==
  \A t \in Threads :
    (th[t].after = "not_found" /\ th[t].loaded # "none")
      => (th[t].loaded = "raised" /\ th[t].err.kind = "FileNotFoundError")

\* C2 (amended): a call that finds no file at the resolved path raises
\* FileNotFoundError carrying that path; a failure is never served from the
\* cache and caches nothing, every not-found failure comes from a storage
\* check made by that call, and a call after a failure that finds the
\* artifact present deserializes it and returns a valid model.
C2_AbsentFailsPresentLoads ==
  /\ first = "not_found" /\ loads = 0 => cache = NoHandle
  /\ \A t \in Threads :
       LET r == th[t] IN
       /\ r.checked = "absent"
            => /\ r.loaded = "raised" /\ ~r.hit
               /\ r.err.kind = "FileNotFoundError" /\ r.err.path = r.path
               /\ r.path \in Paths
       /\ r.err.kind = "FileNotFoundError"
            => /\ ~r.hit /\ r.touched >= 1 /\ r.err.path = r.path
               /\ r.resp.body = IF r.op \in {"preload", "warm"} THEN ""
                                ELSE IF r.op = "health" THEN "not_ok"
                                ELSE IF r.op = "metadata" THEN "warning"
                                ELSE "not_found"
       /\ (r.after = "not_found" /\ r.loaded = "ok" /\ ~r.hit)
            => (r.checked = "present" /\ r.touched = 2 /\ r.model.kind \in ModelKinds)

C2_Witness ==
  \E t \in Threads :
    /\ th[t].after = "not_found" /\ th[t].loaded = "raised"
    /\ th[t].err.kind = "FileNotFoundError" /\ th[t].err.path = OverridePath
    /\ th[t].op = "drf"

\* C3: once a handle is cached the cache never changes, and every
\* load_model call that starts with a cached handle returns exactly that
\* handle without any storage access, whatever the disk or the configured
\* path have become.
C3_CachedHandleIsFinal ==
  [][ /\ cache # NoHandle => cache' = cache
      /\ \A t \in Threads :
           th'[t].saw # NoHandle
             => /\ th'[t].hit /\ th'[t].loaded = "ok"
                /\ th'[t].touched = 0 /\ th'[t].checked = "no"
                /\ th'[t].model = th'[t].saw /\ th'[t].model = cache' ]_vars

C3_Witness ==
  \E t \in Threads :
    /\ th[t].hit /\ th[t].op = "metadata" /\ th[t].model.kind = "proba"
    /\ settings = OverridePath
    /\ disk[DefaultPath] = "absent" /\ disk[OverridePath] = "clfOnly"

\* C4 (as claimed): predict() raises only when load_model() or the tier-0
\* model.predict call fails.
C4_RaisesOnlyLoadOrTier0 ==
  \A t \in Threads :
    th[t].pred = "raised"
      => (th[t].loaded = "raised" \/ th[t].err.kind = "InferenceError")

\* C4 (amended): predict() raises only when load_model() fails, the tier-0
\* call fails, or int() cannot convert the tier-0 label; otherwise it returns
\* (int(y), probability or None) however the probability steps behave, and
\* with both probability steps failing the result is (int(y), None).
C4_RaisesOnlyLoadTier0OrCoercion ==
  \A t \in Threads :
    LET r == th[t] IN
    /\ r.pred = "raised"
         => \/ r.loaded = "raised"
            \/ r.err.kind = "InferenceError" /\ r.y = NoValue
            \/ r.err.kind = "ValueError" /\ IntRaises(r.y)
    /\ (r.pc \in {"save", "done"} /\ r.loaded = "ok" /\ r.y # NoValue /\ ~IntRaises(r.y))
         => (r.pred = "returned" /\ r.cls = IntOf(r.y))
    /\ (r.t2 # "notrun" /\ IntRaises(r.y2)) => (r.t2 = "raised" /\ r.proba = None)
    /\ (r.pred = "returned" /\ r.t1 = "raised" /\ r.t2 = "raised") => r.proba = None

C4_Witness ==
  \E t \in Threads :
    /\ th[t].pred = "returned" /\ th[t].t1 = "raised" /\ th[t].t2 = "raised"
    /\ th[t].pout.raises /\ th[t].y2 = NoValue
    /\ th[t].proba = None /\ th[t].cls = 1

\* C5 (as claimed): for a 9-element feature vector, the class predict()
\* returns is 0 or 1 whatever label the model produces.
C5_ClassIsBinary ==
  \A t \in Threads :
    (th[t].pred = "returned" /\ Len(th[t].features) = 9) => th[t].cls \in {0, 1}

\* C6 (as claimed): when predict_proba returns without raising, the
\* probability is the second column of the first row of a two-column output
\* and the value itself of a single-column or scalar output.
C6_ProbaFromOutput ==
  \A t \in Threads :
    LET r == th[t]
        o == r.pout IN
    (r.pred = "returned" /\ r.t1 \notin {"notrun", "absent"} /\ ~o.raises /\ o.isArray)
      => /\ (Len(o.shape) = 2 /\ o.shape[1] >= 1 /\ o.shape[2] = 2)
              => r.proba = Some(o.data[2])
         /\ (Len(o.shape) = 2 /\ o.shape[1] >= 1 /\ o.shape[2] = 1)
              => r.proba = Some(o.data[1])
         /\ (Len(o.shape) = 1 /\ o.shape[1] >= 1) => r.proba = Some(o.data[1])
         /\ Len(o.shape) = 0 => r.proba = Some(o.data[1])

\* C6 (amended): a 2-D predict_proba output with at least two columns and
\* one row gives the second column of its first row; a non-empty 1-D output
\* gives its first element; any other output that is returned without
\* raising (single-column 2-D, 0-d scalar, empty 1-D, None) is not used and
\* the probability is the hard-class one of the second model.predict call.
C6_ProbaFromReadableOutput ==
  \A t \in Threads :
    LET r == th[t]
        o == r.pout IN
    (r.t1 \notin {"notrun", "absent"} /\ ~o.raises)
      => /\ TwoColumns(o)
              => (r.t1 = "returned" /\ r.proba = Some(o.data[2]) /\ r.t2 = "notrun")
         /\ OneDimension(o)
              => (r.t1 = "returned" /\ r.proba = Some(o.data[1]) /\ r.t2 = "notrun")
         /\ ((o.isArray \/ o.none) /\ ~TwoColumns(o) /\ ~OneDimension(o)
               /\ ~(Len(o.shape) = 2 /\ o.shape[2] >= 2))
              => /\ r.t1 = "fellthrough"
                 /\ r.t2 = "returned" => r.proba = Pseudo(IntOf(r.y2))
                 /\ r.t2 # "returned" => r.proba = None

C6_Witness ==
  \E t \in Threads :
    /\ th[t].pred = "returned" /\ th[t].t1 = "returned"
    /\ th[t].pout = Arr(<<2, 2>>, <<10, 90, 40, 60>>) /\ th[t].proba = Some(90)

\* C7 (as claimed): without predict_proba the probability follows the
\* returned class: 1.0 for class 1 and 0.0 for class 0.
C7_ProbaMatchesClass ==
  \A t \in Threads :
    (th[t].pred = "returned" /\ th[t].model.kind = "clfOnly" /\ th[t].cls \in {0, 1})
      => th[t].proba = Pseudo(th[t].cls)

\* C7 (amended): without predict_proba the probability comes from a second
\* model.predict call: 1.0 if int() of its label is 1, 0.0 for any other
\* label, None if the call or the conversion raises; it matches the returned
\* class whenever the second call returns the label of the first.
C7_ProbaFromSecondCall ==
  \A t \in Threads :
    LET r == th[t] IN
    (r.pred = "returned" /\ r.model.kind = "clfOnly")
      => /\ r.t1 = "absent"
         /\ r.t2 = "returned" => (~IntRaises(r.y2) /\ r.proba = Pseudo(IntOf(r.y2)))
         /\ r.t2 = "raised" => r.proba = None
         /\ r.y2 = r.y => r.proba = Pseudo(r.cls)

C7_Witness ==
  \E t \in Threads :
    /\ th[t].pred = "returned" /\ th[t].model.kind = "clfOnly"
    /\ th[t].y2 = th[t].y /\ th[t].cls = 1 /\ th[t].proba = Some(100)

\* C8 (as claimed): the second model.predict call is attempted only if the
\* model has no predict_proba or the predict_proba step raised, and the
\* probability is None only if the second step raised.
C8_Tier2OnlyAfterAbsentOrRaise ==
  \A t \in Threads :
    /\ th[t].t2 # "notrun" => th[t].t1 \in {"absent", "raised"}
    /\ (th[t].pred = "returned" /\ th[t].proba = None) => th[t].t2 = "raised"

\* C8 (amended): the tiers run in order after the tier-0 call; the second
\* model.predict call is attempted only if the model has no predict_proba,
\* the predict_proba step raised, or predict_proba returned None or an output
\* the code does not read; it is never attempted after the first tier
\* returned a probability, and the probability is None only if the second
\* step raised.
C8_Tier2AfterAbsentRaiseOrUnread ==
  \A t \in Threads :
    LET r == th[t] IN
    /\ r.t1 # "notrun" => r.y # NoValue
    /\ r.t2 # "notrun" => r.t1 \in {"absent", "raised", "fellthrough"}
    /\ r.t1 = "absent" => r.model.kind = "clfOnly"
    /\ r.t1 = "raised" => (r.pout.raises \/ ~r.pout.isArray \/ r.pout.shape[1] = 0)
    /\ r.t1 = "fellthrough"
         => (~r.pout.raises /\ ~TwoColumns(r.pout) /\ ~OneDimension(r.pout))
    /\ r.t1 = "returned" => r.t2 = "notrun"
    /\ (r.pred = "returned" /\ r.proba = None) => r.t2 = "raised"

C8_Witness ==
  \E t \in Threads :
    /\ th[t].pred = "returned" /\ th[t].t1 = "fellthrough"
    /\ th[t].pout = Arr(<<1, 1>>, <<70>>) /\ th[t].t2 = "returned"

\* C9 (as claimed): every feature vector that reaches services.predict() has
\* 9 elements in FEATURE_ORDER and a disturbance indicator of 0 or 1.
C9_DisturbanceValidated ==
  \A t \in Threads :
    (th[t].op \in PredictOps /\ th[t].features # << >>)
      => /\ Len(th[t].features) = 9
         /\ th[t].features[9] \in {Num(0), Num(10)}

\* C10 (as claimed): no step of a health or metadata request changes the
\* cache or deserializes the artifact.
C10_HealthReadOnly ==
  [][ \A t \in Threads :
        (th[t].op \in HealthOps /\ th'[t] # th[t])
          => (cache' = cache /\ loads' = loads) ]_vars

\* C10 (amended): a health or metadata request calls load_model(): with a
\* cached handle it changes nothing and deserializes nothing; with an empty
\* cache it may deserialize the artifact, and the only change it makes to the
\* cache is to store the handle it has just deserialized; whenever it has
\* obtained a model the cache is populated.
C10_HealthLoadsOnEmptyCache ==
  [][ \A t \in Threads :
        /\ (th[t].op \in HealthOps /\ th'[t] # th[t])
             => /\ cache # NoHandle => (cache' = cache /\ loads' = loads)
                /\ cache' # cache
                     => (cache = NoHandle /\ cache' = th[t].model
                           /\ th[t].model.kind \in ModelKinds)
        /\ (th'[t].op \in HealthOps /\ th'[t].loaded = "ok") => cache' # NoHandle ]_vars

C10_Witness ==
  \E t \in Threads :
    /\ th[t].op = "health" /\ th[t].pc = "done" /\ ~th[t].hit
    /\ th[t].loaded = "ok" /\ cache = th[t].model /\ th[t].resp.body = "ok"
====
